---- MODULE Spec2Model ----
(***************************************************************************)
(* passtally-rs: the rules engine.  The Board (src/src/board.rs) with its   *)
(* placement validator, and the Game (src/src/game.rs) with its two-action  *)
(* turns, rollback and marker track.                                        *)
(*                                                                          *)
(* The board is the full 6x6 grid.  The operations are total functions of   *)
(* the state and their argument, written as operators; the actions apply    *)
(* them to arguments drawn from small sets and record the call that was     *)
(* made in `last`.                                                          *)
(***************************************************************************)
EXTENDS Integers, Sequences, FiniteSets, TLC

(***************************************************************************)
(* Bounds of the exploration.                                               *)
(***************************************************************************)
\* place_piece is explored on boards that hold fewer than MaxPlaced pieces.
MaxPlaced == 3
\* play_turn is explored while round < MaxRound.
MaxRound == 2
\* pass is applied at most MaxPasses times in a row to a side.
MaxPasses == 2

(***************************************************************************)
(* Program constants.                                                       *)
(***************************************************************************)
\* The board is [[_; 6]; 6]: coordinates 0..=5 (board.rs:9, valid / on_edge).
BoardMax == 5
\* player_markers: [Option<u8>; 24] (game.rs:10).
TrackLen == 24

(***************************************************************************)
(* Values.                                                                  *)
(***************************************************************************)
BoardPosition(x, y) == [x |-> x, y |-> y]

\* impl Add for BoardPosition (i8 components; the inputs stay far from the
\* i8 limits, so the sums below never overflow).
Add(p, q) == BoardPosition(p.x + q.x, p.y + q.y)

\* BoardPosition::valid
valid(p) == p.x <= BoardMax /\ p.x >= 0 /\ p.y <= BoardMax /\ p.y >= 0

\* BoardPosition::on_edge
on_edge(p) == p.x = 0 \/ p.y = 0 \/ p.x = BoardMax \/ p.y = BoardMax

\* The positions on the board.
Cells == {BoardPosition(x, y) : x \in 0..BoardMax, y \in 0..BoardMax}

\* A [[T; 6]; 6] array holding v everywhere, its element at position i
\* (array[i.x as usize][i.y as usize]) and the array with that element set.
Array6x6(v) == [x \in 0..BoardMax |-> [y \in 0..BoardMax |-> v]]
At(array, i) == array[i.x][i.y]
Set(array, i, v) == [array EXCEPT ![i.x][i.y] = v]

\* enum Side, #[repr(u8)]: Top = 0, Right = 1, Bottom = 2, Left = 3.
Side == {"Top", "Right", "Bottom", "Left"}

\* `side as u8`, and Side::try_from(n).unwrap() for n in 0..3.
SideAsU8(side) ==
    CASE side = "Top" -> 0
      [] side = "Right" -> 1
      [] side = "Bottom" -> 2
      [] side = "Left" -> 3
SideTryFrom(n) ==
    CASE n = 0 -> "Top"
      [] n = 1 -> "Right"
      [] n = 2 -> "Bottom"
      [] n = 3 -> "Left"

\* Side::opposite
opposite(side) ==
    CASE side = "Top" -> "Bottom"
      [] side = "Bottom" -> "Top"
      [] side = "Left" -> "Right"
      [] side = "Right" -> "Left"

\* Side::rotate, clockwise by n.  (self as u8 + n is a u8 sum; n is at most
\* 4 in every call made here, so it does not overflow.)
rotate(side, n) == SideTryFrom((SideAsU8(side) + n) % 4)

\* enum PartialPiece
PartialPiece == {"TopBottom_LeftRight", "TopLeft_BottomRight", "TopRight_BottomLeft"}

\* Fault: in TopRight_BottomLeft, Top leads to Top.
PartialPiece_pass_top_to_top(partial_piece, side) ==
    CASE partial_piece = "TopBottom_LeftRight" -> opposite(side)
      [] partial_piece = "TopLeft_BottomRight" ->
            (CASE side = "Top" -> "Left"
               [] side = "Left" -> "Top"
               [] side = "Bottom" -> "Right"
               [] side = "Right" -> "Bottom")
      [] partial_piece = "TopRight_BottomLeft" ->
            (CASE side = "Top" -> "Top"
               [] side = "Right" -> "Top"
               [] side = "Bottom" -> "Left"
               [] side = "Left" -> "Bottom")

\* Fault: in TopLeft_BottomRight, Left leads to Bottom.
PartialPiece_pass_left_to_bottom(partial_piece, side) ==
    CASE partial_piece = "TopBottom_LeftRight" -> opposite(side)
      [] partial_piece = "TopLeft_BottomRight" ->
            (CASE side = "Top" -> "Left"
               [] side = "Left" -> "Bottom"
               [] side = "Bottom" -> "Right"
               [] side = "Right" -> "Bottom")
      [] partial_piece = "TopRight_BottomLeft" ->
            (CASE side = "Top" -> "Right"
               [] side = "Right" -> "Top"
               [] side = "Bottom" -> "Left"
               [] side = "Left" -> "Bottom")

\* PartialPiece::pass: the side we leave from when we enter from `side`.
PartialPiece_pass(partial_piece, side) ==
    CASE partial_piece = "TopBottom_LeftRight" -> opposite(side)
      [] partial_piece = "TopLeft_BottomRight" ->
            (CASE side = "Top" -> "Left"
               [] side = "Left" -> "Top"
               [] side = "Bottom" -> "Right"
               [] side = "Right" -> "Bottom")
      [] partial_piece = "TopRight_BottomLeft" ->
            (CASE side = "Top" -> "Right"
               [] side = "Right" -> "Top"
               [] side = "Bottom" -> "Left"
               [] side = "Left" -> "Bottom")

\* Fault: the exit side is not rotated back to global.
RotatedPartialPiece_pass_stays_local(rpp, side) ==
    PartialPiece_pass(rpp.partial_piece, rotate(side, 4 - rpp.rotation))

\* RotatedPartialPiece::pass, for a rotation in 0..3 (4 - self.rotation is a
\* u8 difference, which does not underflow for these): rotate into the local
\* side, pass through the piece, rotate back to global.
RotatedPartialPiece_pass(rpp, side) ==
    rotate(PartialPiece_pass(rpp.partial_piece, rotate(side, 4 - rpp.rotation)),
           rpp.rotation)

\* RotatedPartialPiece::new
RotatedPartialPiece(partial_piece, rotation) ==
    [partial_piece |-> partial_piece, rotation |-> rotation]

\* PositionedPiece { piece, rotation, position }
PositionedPiece(piece, rotation, position) ==
    [piece |-> piece, rotation |-> rotation, position |-> position]

\* PositionedPiece::partial_pieces
partial_pieces(pp) ==
    CASE pp.piece = "Red"    -> <<"TopBottom_LeftRight", "TopBottom_LeftRight">>
      [] pp.piece = "Green"  -> <<"TopLeft_BottomRight", "TopLeft_BottomRight">>
      [] pp.piece = "Yellow" -> <<"TopRight_BottomLeft", "TopRight_BottomLeft">>
      [] pp.piece = "Blue"   -> <<"TopBottom_LeftRight", "TopLeft_BottomRight">>
      [] pp.piece = "Cyan"   -> <<"TopBottom_LeftRight", "TopRight_BottomLeft">>
      [] pp.piece = "Pink"   -> <<"TopRight_BottomLeft", "TopLeft_BottomRight">>

\* PositionedPiece::rotated_partial_pieces
rotated_partial_pieces(pp) ==
    <<RotatedPartialPiece(partial_pieces(pp)[1], pp.rotation),
      RotatedPartialPiece(partial_pieces(pp)[2], pp.rotation)>>

\* Fault: the second cell of a piece turned once lies diagonally.
positions_rotation_1_diagonal(pp) ==
    LET second_position ==
            CASE pp.rotation = 0 -> Add(pp.position, BoardPosition(1, 0))
              [] pp.rotation = 1 -> Add(pp.position, BoardPosition(1, 1))
              [] pp.rotation = 2 -> Add(pp.position, BoardPosition(-1, 0))
              [] pp.rotation = 3 -> Add(pp.position, BoardPosition(0, -1))
    IN  <<pp.position, second_position>>

\* PositionedPiece::positions, for a rotation in 0..3 (any other rotation
\* reaches unreachable!(); the inputs below never carry one).
positions(pp) ==
    LET second_position ==
            CASE pp.rotation = 0 -> Add(pp.position, BoardPosition(1, 0))
              [] pp.rotation = 1 -> Add(pp.position, BoardPosition(0, 1))
              [] pp.rotation = 2 -> Add(pp.position, BoardPosition(-1, 0))
              [] pp.rotation = 3 -> Add(pp.position, BoardPosition(0, -1))
    IN  <<pp.position, second_position>>

(***************************************************************************)
(* Results: Result<(), PasstallyError>.                                     *)
(***************************************************************************)
Ok == [tag |-> "Ok"]
Err(e) == [tag |-> "Err", err |-> e]
IsOk(r) == r.tag = "Ok"
IsErr(r) == r.tag = "Err"

\* PasstallyError, as board.rs and game.rs construct its values.
InvalidPosition(p) == [kind |-> "InvalidPosition", pos |-> p]
BadHeight == [kind |-> "BadHeight"]
BadPiece == [kind |-> "BadPiece"]
NoPlayerMarker == [kind |-> "NoPlayerMarker"]
HasPlayerMarker == [kind |-> "HasPlayerMarker"]
TooFar == [kind |-> "TooFar"]

(***************************************************************************)
(* Board.                                                                   *)
(***************************************************************************)
\* Board::default
Board_default ==
    [top_pieces |-> Array6x6(RotatedPartialPiece("TopBottom_LeftRight", 0)),
     tile_id    |-> Array6x6(0),
     next_id    |-> 1,
     height     |-> Array6x6(0)]

\* Fault: the second position is checked before the first.
place_piece_validate_second_first(b, pos1, pos2) ==
    IF ~valid(pos2) THEN Err(InvalidPosition(pos2))
    ELSE IF ~valid(pos1) THEN Err(InvalidPosition(pos1))
    ELSE IF At(b.height, pos1) # At(b.height, pos2) THEN Err(BadHeight)
    ELSE IF /\ At(b.tile_id, pos1) # 0
            /\ At(b.tile_id, pos2) # 0
            /\ At(b.tile_id, pos1) = At(b.tile_id, pos2)
         THEN Err(BadPiece)
    ELSE Ok

\* Fault: the "only if they aren't the board" conjuncts are missing, so two
\* bare cells (both 0) count as the same piece.
place_piece_validate_bare_is_piece(b, pos1, pos2) ==
    IF ~valid(pos1) THEN Err(InvalidPosition(pos1))
    ELSE IF ~valid(pos2) THEN Err(InvalidPosition(pos2))
    ELSE IF At(b.height, pos1) # At(b.height, pos2) THEN Err(BadHeight)
    ELSE IF At(b.tile_id, pos1) = At(b.tile_id, pos2) THEN Err(BadPiece)
    ELSE Ok

\* Fault: the tile ids are compared with # in place of =.
place_piece_validate_ids_differ(b, pos1, pos2) ==
    IF ~valid(pos1) THEN Err(InvalidPosition(pos1))
    ELSE IF ~valid(pos2) THEN Err(InvalidPosition(pos2))
    ELSE IF At(b.height, pos1) # At(b.height, pos2) THEN Err(BadHeight)
    ELSE IF /\ At(b.tile_id, pos1) # 0
            /\ At(b.tile_id, pos2) # 0
            /\ At(b.tile_id, pos1) # At(b.tile_id, pos2)
         THEN Err(BadPiece)
    ELSE Ok

\* Fault: the two != 0 tests are joined with || in place of &&, so nothing
\* can be placed on a piece.
place_piece_validate_no_stacking(b, pos1, pos2) ==
    IF ~valid(pos1) THEN Err(InvalidPosition(pos1))
    ELSE IF ~valid(pos2) THEN Err(InvalidPosition(pos2))
    ELSE IF At(b.height, pos1) # At(b.height, pos2) THEN Err(BadHeight)
    ELSE IF \/ At(b.tile_id, pos1) # 0
            \/ At(b.tile_id, pos2) # 0
         THEN Err(BadPiece)
    ELSE Ok

\* Board::place_piece, the checks before any mutation: Ok, or the error of
\* the first check that fails.
place_piece_validate(b, pos1, pos2) ==
    IF ~valid(pos1) THEN Err(InvalidPosition(pos1))
    ELSE IF ~valid(pos2) THEN Err(InvalidPosition(pos2))
    ELSE IF At(b.height, pos1) # At(b.height, pos2) THEN Err(BadHeight)
    ELSE IF /\ At(b.tile_id, pos1) # 0
            /\ At(b.tile_id, pos2) # 0
            /\ At(b.tile_id, pos1) = At(b.tile_id, pos2)
         THEN Err(BadPiece)
    ELSE Ok

\* Fault: piece1 and piece2 are written to the wrong positions.
place_piece_apply_shapes_swapped(b, piece, pos1, pos2) ==
    LET h1 == Set(b.height, pos1, At(b.height, pos1) + 1)
        h2 == Set(h1, pos2, At(h1, pos2) + 1)
        t1 == Set(b.tile_id, pos1, b.next_id)
        t2 == Set(t1, pos2, b.next_id)
        p1 == Set(b.top_pieces, pos1, rotated_partial_pieces(piece)[2])
        p2 == Set(p1, pos2, rotated_partial_pieces(piece)[1])
    IN  [top_pieces |-> p2,
         tile_id    |-> t2,
         next_id    |-> b.next_id + 1,
         height     |-> h2]

\* Fault: the height of pos1 is incremented twice, that of pos2 never.
place_piece_apply_height_pos1_twice(b, piece, pos1, pos2) ==
    LET h1 == Set(b.height, pos1, At(b.height, pos1) + 1)
        h2 == Set(h1, pos1, At(h1, pos1) + 1)
        t1 == Set(b.tile_id, pos1, b.next_id)
        t2 == Set(t1, pos2, b.next_id)
        p1 == Set(b.top_pieces, pos1, rotated_partial_pieces(piece)[1])
        p2 == Set(p1, pos2, rotated_partial_pieces(piece)[2])
    IN  [top_pieces |-> p2,
         tile_id    |-> t2,
         next_id    |-> b.next_id + 1,
         height     |-> h2]

\* Fault: the tile id is written to pos1 only.
place_piece_apply_id_pos1_only(b, piece, pos1, pos2) ==
    LET h1 == Set(b.height, pos1, At(b.height, pos1) + 1)
        h2 == Set(h1, pos2, At(h1, pos2) + 1)
        t1 == Set(b.tile_id, pos1, b.next_id)
        p1 == Set(b.top_pieces, pos1, rotated_partial_pieces(piece)[1])
        p2 == Set(p1, pos2, rotated_partial_pieces(piece)[2])
    IN  [top_pieces |-> p2,
         tile_id    |-> t1,
         next_id    |-> b.next_id + 1,
         height     |-> h2]

\* Fault: next_id is not incremented.
place_piece_apply_keeps_next_id(b, piece, pos1, pos2) ==
    LET h1 == Set(b.height, pos1, At(b.height, pos1) + 1)
        h2 == Set(h1, pos2, At(h1, pos2) + 1)
        t1 == Set(b.tile_id, pos1, b.next_id)
        t2 == Set(t1, pos2, b.next_id)
        p1 == Set(b.top_pieces, pos1, rotated_partial_pieces(piece)[1])
        p2 == Set(p1, pos2, rotated_partial_pieces(piece)[2])
    IN  [top_pieces |-> p2,
         tile_id    |-> t2,
         next_id    |-> b.next_id,
         height     |-> h2]

\* Board::place_piece, "This is a valid move, so we do it": the board after
\* the six assignments.  (next_id and height are u32; the bound MaxPlaced
\* keeps them far from 2^32.)
place_piece_apply(b, piece, pos1, pos2) ==
    LET h1 == Set(b.height, pos1, At(b.height, pos1) + 1)
        h2 == Set(h1, pos2, At(h1, pos2) + 1)
        t1 == Set(b.tile_id, pos1, b.next_id)
        t2 == Set(t1, pos2, b.next_id)
        p1 == Set(b.top_pieces, pos1, rotated_partial_pieces(piece)[1])
        p2 == Set(p1, pos2, rotated_partial_pieces(piece)[2])
    IN  [top_pieces |-> p2,
         tile_id    |-> t2,
         next_id    |-> b.next_id + 1,
         height     |-> h2]

\* Fault: the height of pos1 is incremented before the height and tile id
\* checks.
place_piece_height_before_checks(b, piece) ==
    LET pos1 == positions(piece)[1]
        pos2 == positions(piece)[2]
        checked == place_piece_validate(b, pos1, pos2)
    IN  IF IsErr(checked)
            THEN [board |-> IF valid(pos1) /\ valid(pos2)
                                THEN [b EXCEPT !.height = Set(@, pos1, At(@, pos1) + 1)]
                                ELSE b,
                  res |-> checked]
            ELSE [board |-> place_piece_apply(b, piece, pos1, pos2), res |-> Ok]

\* Board::place_piece: the board it leaves and the result it returns.
place_piece(b, piece) ==
    LET pos1 == positions(piece)[1]
        pos2 == positions(piece)[2]
        checked == place_piece_validate(b, pos1, pos2)
    IN  IF IsErr(checked)
            THEN [board |-> b, res |-> checked]
            ELSE [board |-> place_piece_apply(b, piece, pos1, pos2), res |-> Ok]

\* A panic: the call does not return and the program ends.
Aborted == [tag |-> "Aborted"]

\* place_piece as it would abort if the heights were compared before the
\* positions are tested: any cell off the board is an index out of range.
place_piece_aborts_heights_first(b, piece) ==
    \/ piece.rotation \notin 0..3
    \/ ~valid(positions(piece)[1])
    \/ ~valid(positions(piece)[2])

\* Board::place_piece, whether a call panics: positions() reaches
\* unreachable!() for a rotation outside 0..3; height(), tile_id() and
\* top_piece_mut() index [[_; 6]; 6] arrays with x as usize and y as usize
\* (a negative i8 becomes a huge usize), which they do with pos1 and pos2
\* once both have passed valid().
place_piece_aborts(b, piece) ==
    \/ piece.rotation \notin 0..3
    \/ /\ valid(positions(piece)[1])
       /\ valid(positions(piece)[2])
       /\ \E pos \in {positions(piece)[1], positions(piece)[2]} :
              pos.x \notin 0..5 \/ pos.y \notin 0..5

(***************************************************************************)
(* Game.                                                                    *)
(***************************************************************************)
\* Option<u8>: None is the empty sequence, Some(p) is <<p>>.
None == <<>>
Some(p) == <<p>>
is_none(o) == o = None
is_some(o) == o # None

Slots == 0..(TrackLen - 1)

\* Fault: the game starts with the marker of player 0 on slot 0.
Game_new_with_marker(player_count) ==
    [board          |-> Board_default,
     player_markers |-> [i \in Slots |-> IF i = 0 THEN Some(0) ELSE None],
     player_count   |-> player_count,
     round          |-> 0]

\* Game::new(player_count).  (The three decks are shuffled here and read by
\* no operation of the engine; they are left out.)
Game_new(player_count) ==
    [board          |-> Board_default,
     player_markers |-> [i \in Slots |-> None],
     player_count   |-> player_count,
     round          |-> 0]

\* Fault: the round is returned as it is, not modulo player_count.
next_player_no_wrap(g) == g.round

\* Game::next_player, for player_count >= 1 (it divides by player_count).
\* The result, below player_count, fits the u8 it is cast to.
next_player(g) == g.round % g.player_count

\* filter(is_none).count() over a range of slot indices that visits every
\* slot at most once.
CountNone(markers, S) == Cardinality({i \in S : is_none(markers[i])})

\* Fault: "to" is checked before "from".
move_player_marker_to_checked_first(g, from, to) ==
    IF is_some(g.player_markers[to]) THEN [game |-> g, res |-> Err(HasPlayerMarker)]
    ELSE IF is_none(g.player_markers[from]) THEN [game |-> g, res |-> Err(NoPlayerMarker)]
    ELSE LET min == IF from <= to THEN from ELSE to
             max == IF from <= to THEN to ELSE from
             short == CountNone(g.player_markers, (min + 1)..(max - 1))
             long == CountNone(g.player_markers,
                               {v % TrackLen : v \in (max + 1)..(min + TrackLen - 1)})
             valid_move == IF short <= 1 THEN TRUE ELSE long <= 1
         IN  IF ~valid_move
                 THEN [game |-> g, res |-> Err(TooFar)]
                 ELSE [game |-> [g EXCEPT !.player_markers =
                                     [@ EXCEPT ![to] = g.player_markers[from],
                                               ![from] = None]],
                       res |-> Ok]

\* Fault: only the slots between min and max are counted, never the long
\* way round.
move_player_marker_short_way_only(g, from, to) ==
    IF is_none(g.player_markers[from]) THEN [game |-> g, res |-> Err(NoPlayerMarker)]
    ELSE IF is_some(g.player_markers[to]) THEN [game |-> g, res |-> Err(HasPlayerMarker)]
    ELSE LET min == IF from <= to THEN from ELSE to
             max == IF from <= to THEN to ELSE from
             short == CountNone(g.player_markers, (min + 1)..(max - 1))
             valid_move == short <= 1
         IN  IF ~valid_move
                 THEN [game |-> g, res |-> Err(TooFar)]
                 ELSE [game |-> [g EXCEPT !.player_markers =
                                     [@ EXCEPT ![to] = g.player_markers[from],
                                               ![from] = None]],
                       res |-> Ok]

\* Fault: "to" is not checked, the marker lands on whatever slot `to` holds.
move_player_marker_to_unchecked(g, from, to) ==
    IF is_none(g.player_markers[from]) THEN [game |-> g, res |-> Err(NoPlayerMarker)]
    ELSE LET min == IF from <= to THEN from ELSE to
             max == IF from <= to THEN to ELSE from
             short == CountNone(g.player_markers, (min + 1)..(max - 1))
             long == CountNone(g.player_markers,
                               {v % TrackLen : v \in (max + 1)..(min + TrackLen - 1)})
             valid_move == IF short <= 1 THEN TRUE ELSE long <= 1
         IN  IF ~valid_move
                 THEN [game |-> g, res |-> Err(TooFar)]
                 ELSE [game |-> [g EXCEPT !.player_markers =
                                     [@ EXCEPT ![to] = g.player_markers[from],
                                               ![from] = None]],
                       res |-> Ok]

\* Fault: the marker is copied to `to` and not taken from `from`.
move_player_marker_copies(g, from, to) ==
    IF is_none(g.player_markers[from]) THEN [game |-> g, res |-> Err(NoPlayerMarker)]
    ELSE IF is_some(g.player_markers[to]) THEN [game |-> g, res |-> Err(HasPlayerMarker)]
    ELSE LET min == IF from <= to THEN from ELSE to
             max == IF from <= to THEN to ELSE from
             short == CountNone(g.player_markers, (min + 1)..(max - 1))
             long == CountNone(g.player_markers,
                               {v % TrackLen : v \in (max + 1)..(min + TrackLen - 1)})
             valid_move == IF short <= 1 THEN TRUE ELSE long <= 1
         IN  IF ~valid_move
                 THEN [game |-> g, res |-> Err(TooFar)]
                 ELSE [game |-> [g EXCEPT !.player_markers =
                                     [@ EXCEPT ![to] = g.player_markers[from]]],
                       res |-> Ok]

\* Game::move_player_marker, for from and to in 0..=23 (the two assert!s):
\* the game it leaves and the result it returns.
move_player_marker(g, from, to) ==
    IF is_none(g.player_markers[from]) THEN [game |-> g, res |-> Err(NoPlayerMarker)]
    ELSE IF is_some(g.player_markers[to]) THEN [game |-> g, res |-> Err(HasPlayerMarker)]
    ELSE LET min == IF from <= to THEN from ELSE to
             max == IF from <= to THEN to ELSE from
             short == CountNone(g.player_markers, (min + 1)..(max - 1))
             long == CountNone(g.player_markers,
                               {v % TrackLen : v \in (max + 1)..(min + TrackLen - 1)})
             valid_move == IF short <= 1 THEN TRUE ELSE long <= 1
         IN  IF ~valid_move
                 THEN [game |-> g, res |-> Err(TooFar)]
                 ELSE [game |-> [g EXCEPT !.player_markers =
                                     [@ EXCEPT ![to] = g.player_markers[from],
                                               ![from] = None]],
                       res |-> Ok]

\* enum Action
PlacePieceAction(piece) == [kind |-> "PlacePiece", piece |-> piece]
MovePlayerMarkerAction(from, to) == [kind |-> "MovePlayerMarker", from |-> from, to |-> to]

\* Game::do_action
do_action(g, action) ==
    IF action.kind = "PlacePiece"
        THEN LET r == place_piece(g.board, action.piece)
             IN  [game |-> [g EXCEPT !.board = r.board], res |-> r.res]
        ELSE move_player_marker(g, action.from, action.to)

\* Game::move_player_marker, whether a call panics: the two assert!s; past
\* them every index (from, to, i in min + 1..max, v % 24) is below 24.
move_player_marker_aborts(g, from, to) ==
    from \notin 0..(TrackLen - 1) \/ to \notin 0..(TrackLen - 1)

\* Game::do_action, whether a call panics.
do_action_aborts(g, action) ==
    IF action.kind = "PlacePiece"
        THEN place_piece_aborts(g.board, action.piece)
        ELSE move_player_marker_aborts(g, action.from, action.to)

\* The closure given to and_then was not called.
NotApplied == [tag |-> "NotApplied"]

\* Fault: the Err arm restores player_markers and forgets the board.
play_turn_finish_keeps_board(backup, res1, chain) ==
    IF IsOk(chain.res)
        THEN [game |-> [chain.game EXCEPT !.round = @ + 1],
              res |-> Ok, res1 |-> res1, res2 |-> chain.res2]
        ELSE [game |-> [chain.game EXCEPT !.player_markers = backup[2]],
              res |-> chain.res, res1 |-> res1, res2 |-> chain.res2]

\* Fault: the Err arm restores the board and forgets player_markers.
play_turn_finish_keeps_markers(backup, res1, chain) ==
    IF IsOk(chain.res)
        THEN [game |-> [chain.game EXCEPT !.round = @ + 1],
              res |-> Ok, res1 |-> res1, res2 |-> chain.res2]
        ELSE [game |-> [chain.game EXCEPT !.board = backup[1]],
              res |-> chain.res, res1 |-> res1, res2 |-> chain.res2]

\* Fault: round is incremented before the match, on either arm.
play_turn_finish_counts_failures(backup, res1, chain) ==
    IF IsOk(chain.res)
        THEN [game |-> [chain.game EXCEPT !.round = @ + 1],
              res |-> Ok, res1 |-> res1, res2 |-> chain.res2]
        ELSE [game |-> [chain.game EXCEPT !.round = @ + 1,
                                          !.board = backup[1],
                                          !.player_markers = backup[2]],
              res |-> chain.res, res1 |-> res1, res2 |-> chain.res2]

\* Game::play_turn, the match on res: Ok(_) increments round, Err(err)
\* restores the backup.  chain is what the and_then chain left: the game,
\* its result res, and the result res2 of its closure.
play_turn_finish(backup, res1, chain) ==
    IF IsOk(chain.res)
        THEN [game |-> [chain.game EXCEPT !.round = @ + 1],
              res |-> Ok, res1 |-> res1, res2 |-> chain.res2]
        ELSE [game |-> [chain.game EXCEPT !.board = backup[1],
                                          !.player_markers = backup[2]],
              res |-> chain.res, res1 |-> res1, res2 |-> chain.res2]

\* The closure of and_then: do_action(action2) on the game action1 left.
play_turn_closure(s2) == [game |-> s2.game, res |-> s2.res, res2 |-> s2.res]

\* Fault: the closure applies action2 to the state of the backup, as it was
\* before action1.
play_turn_and_then_on_backup(backup, s1, action2) ==
    play_turn_finish(backup, s1.res,
        IF IsOk(s1.res)
            THEN play_turn_closure(
                     do_action([s1.game EXCEPT !.board = backup[1],
                                               !.player_markers = backup[2]],
                               action2))
            ELSE [game |-> s1.game, res |-> s1.res, res2 |-> NotApplied])

\* Fault: both actions are always applied and the last error wins.
play_turn_and_then_last_error(backup, s1, action2) ==
    play_turn_finish(backup, s1.res,
        LET s2 == play_turn_closure(do_action(s1.game, action2))
        IN  IF IsErr(s2.res) \/ IsOk(s1.res)
                THEN s2
                ELSE [game |-> s2.game, res |-> s1.res, res2 |-> s2.res2])

\* Game::play_turn, do_action(action1).and_then(|_| do_action(action2)):
\* the closure runs only when action1 returned Ok, else the error of action1
\* is the result of the chain.
play_turn_and_then(backup, s1, action2) ==
    play_turn_finish(backup, s1.res,
        IF IsOk(s1.res)
            THEN play_turn_closure(do_action(s1.game, action2))
            ELSE [game |-> s1.game, res |-> s1.res, res2 |-> NotApplied])

\* Game::play_turn: the game it leaves, the result res it returns, and the
\* results res1 and res2 of the two do_action calls (res2 is NotApplied when
\* the closure was not called).
play_turn(g, turn) ==
    play_turn_and_then(<<g.board, g.player_markers>>, do_action(g, turn[1]), turn[2])

\* Game::play_turn, whether a call panics: in action1, or in action2 when
\* action1 returned Ok and the closure is called on the state it left.
play_turn_aborts(g, turn) ==
    \/ do_action_aborts(g, turn[1])
    \/ \E s1 \in {do_action(g, turn[1])} :
           IsOk(s1.res) /\ do_action_aborts(s1.game, turn[2])

(***************************************************************************)
(* State.                                                                   *)
(***************************************************************************)
VARIABLES
    board,           \* Game.board: top_pieces, tile_id, next_id, height
    player_markers,  \* Game.player_markers
    player_count,    \* Game.player_count
    round,           \* Game.round
    signal,          \* the call of Board::enter in progress: entry, pos, side
    placed,          \* history: the pieces placed and kept on the board, in order
    last             \* history: the last call and what it returned

vars == <<board, player_markers, player_count, round, signal, placed, last>>

\* No call of Board::enter has been made.
Idle == [pc |-> "idle"]

\* The Game value held in the state variables.
game ==
    [board |-> board, player_markers |-> player_markers,
     player_count |-> player_count, round |-> round]

(***************************************************************************)
(* Arguments of the calls.                                                  *)
(***************************************************************************)
\* The callers construct the game for two players (main.rs, game.rs tests).
PlayerCount == 2

\* First cells of the pieces placed: the top-left 2x2 corner, the bottom-right
\* corner cell, and one position off the board on each side of the x axis.
PositionInputs ==
    {BoardPosition(0, 0), BoardPosition(1, 0), BoardPosition(0, 1), BoardPosition(1, 1),
     BoardPosition(BoardMax, BoardMax),
     BoardPosition(-1, 0), BoardPosition(BoardMax + 1, BoardMax)}

Rotations == 0..3

\* Pink (two different shapes) anywhere, Red (two equal shapes) anchored on
\* (1, 1).
PieceInputs ==
    {PositionedPiece("Pink", r, p) : r \in Rotations, p \in PositionInputs}
    \cup {PositionedPiece("Red", r, BoardPosition(1, 1)) : r \in Rotations}

\* The actions of a turn: Pink anchored on (0, 0) or (1, 1) (from (0, 0) the
\* rotations 2 and 3 put its second cell off the board) or with its first
\* cell off the board on (-1, 0), and marker moves among three slots.
SlotInputs == {0, 2, 5}

ActionInputs ==
    {PlacePieceAction(PositionedPiece("Pink", r, p)) :
        r \in Rotations, p \in {BoardPosition(0, 0), BoardPosition(1, 1)}}
    \cup {PlacePieceAction(PositionedPiece("Pink", 0, BoardPosition(-1, 0)))}
    \cup {MovePlayerMarkerAction(from, to) : from \in SlotInputs, to \in SlotInputs}

TurnInputs == ActionInputs \X ActionInputs

\* Marker tracks a game is started from: the empty track of Game::new, one
\* marker on slot 0, and every slot but 5 and 17 occupied by two players in
\* turn.
MarkerInputs ==
    {[i \in Slots |-> None],
     [i \in Slots |-> IF i = 0 THEN Some(0) ELSE None],
     [i \in Slots |-> IF i \in {5, 17} THEN None ELSE Some(i % 2)]}

(***************************************************************************)
(* Actions.                                                                 *)
(***************************************************************************)
Init ==
    /\ board = Game_new(PlayerCount).board
    /\ player_markers = Game_new(PlayerCount).player_markers
    /\ player_count = Game_new(PlayerCount).player_count
    /\ round = Game_new(PlayerCount).round
    /\ signal = Idle
    /\ placed = <<>>
    /\ last = [op |-> "new"]

\* A game as Game::new leaves it, but for the markers on its track.
InitMarkers ==
    /\ board = Game_new(PlayerCount).board
    /\ player_markers \in MarkerInputs
    /\ player_count = Game_new(PlayerCount).player_count
    /\ round = Game_new(PlayerCount).round
    /\ signal = Idle
    /\ placed = <<>>
    /\ last = [op |-> "new"]

\* A call of Board::place_piece on a board that holds fewer than MaxPlaced
\* pieces.
PlacePiece(piece) ==
    /\ board.next_id <= MaxPlaced
    /\ \E r \in {place_piece(board, piece)} :
           /\ board' = r.board
           /\ placed' = IF IsOk(r.res) THEN Append(placed, piece) ELSE placed
           /\ last' = [op |-> "place_piece", piece |-> piece, res |-> r.res]
    /\ UNCHANGED <<player_markers, player_count, round, signal>>

\* The pieces of the PlacePiece actions of a turn, in order.
PiecesOf(turn) ==
    (IF turn[1].kind = "PlacePiece" THEN <<turn[1].piece>> ELSE <<>>)
    \o (IF turn[2].kind = "PlacePiece" THEN <<turn[2].piece>> ELSE <<>>)

\* A call of Game::play_turn, while round < MaxRound.  A call that panics
\* returns nothing; last.res is Aborted then.
PlayTurn(turn) ==
    /\ round < MaxRound
    /\ IF play_turn_aborts(game, turn)
           THEN /\ last' = [op |-> "play_turn",
                            kinds |-> <<turn[1].kind, turn[2].kind>>,
                            res |-> Aborted, res1 |-> Aborted, res2 |-> Aborted]
                /\ UNCHANGED <<board, player_markers, player_count, round, placed>>
           ELSE \E r \in {play_turn(game, turn)} :
                    /\ board' = r.game.board
                    /\ player_markers' = r.game.player_markers
                    /\ player_count' = r.game.player_count
                    /\ round' = r.game.round
                    /\ placed' = IF IsOk(r.res) THEN placed \o PiecesOf(turn) ELSE placed
                    /\ last' = [op |-> "play_turn",
                                kinds |-> <<turn[1].kind, turn[2].kind>>,
                                res |-> r.res, res1 |-> r.res1, res2 |-> r.res2]
    /\ UNCHANGED signal

\* A call of Game::next_player.
NextPlayer ==
    /\ last' = [op |-> "next_player", ret |-> next_player(game)]
    /\ UNCHANGED <<board, player_markers, player_count, round, signal, placed>>

NextBoard == \E piece \in PieceInputs : PlacePiece(piece)

Next ==
    \/ \E turn \in TurnInputs : PlayTurn(turn)
    \/ NextPlayer

\* A game from Game::new under play_turn and next_player.
Spec == Init /\ [][Next]_vars

\* The same from a marker track given as input.  Game::new leaves the track
\* empty and no operation of game.rs puts a marker on it, so the marker rule
\* and the rollback of player_markers act only on tracks given this way; the
\* empty track is one of them, so every behaviour of Spec is one of
\* SpecMarkers.
SpecMarkers == InitMarkers /\ [][Next]_vars

\* The board under any sequence of place_piece calls.
SpecBoard == Init /\ [][NextBoard]_vars

\* The pieces of the PlacePiece actions of ActionInputs.
TurnPieces == {a.piece : a \in {b \in ActionInputs : b.kind = "PlacePiece"}}

NextGame ==
    \/ \E piece \in TurnPieces : PlacePiece(piece)
    \/ \E turn \in TurnInputs : PlayTurn(turn)
    \/ NextPlayer

\* The board of a game from Game::new under place_piece calls made one by
\* one and under play_turn, which makes them in pairs and may roll them back.
SpecGame == Init /\ [][NextGame]_vars

\* The numbers of players a game is constructed for.
PlayerCountInputs == 1..3

InitPlayers ==
    \E n \in PlayerCountInputs :
        /\ board = Game_new(n).board
        /\ player_markers = Game_new(n).player_markers
        /\ player_count = Game_new(n).player_count
        /\ round = Game_new(n).round
        /\ signal = Idle
        /\ placed = <<>>
        /\ last = [op |-> "new"]

\* A game from Game::new, for one, two or three players, under play_turn and
\* next_player.
SpecPlayers == InitPlayers /\ [][Next]_vars

(***************************************************************************)
(* The marker rule on its own.                                              *)
(***************************************************************************)
\* A track with a marker on every slot of M, and one with a marker on every
\* slot but those of E; the marker on slot i belongs to player i mod
\* PlayerCount.
TrackWithMarkers(M) == [i \in Slots |-> IF i \in M THEN Some(i % PlayerCount) ELSE None]
TrackWithEmpty(E) == TrackWithMarkers(Slots \ E)

\* The slots of E moved r slots along the cycle.
Rotated(E, r) == {(e + r) % TrackLen : e \in E}

\* Sets of empty slots of a well-filled track: a gap of three, three gaps
\* of one, and two gaps (of three and of two) opposite each other.
GapInputs == {{0, 1, 2}, {0, 2, 12}, {0, 1, 2, 12, 13}}

\* The tracks move_player_marker is applied to: every track of at most two
\* markers, every track of at most two empty slots, and every rotation of
\* the tracks of GapInputs.
TrackInputs ==
    {TrackWithMarkers({a, b}) : a \in Slots, b \in Slots}
    \cup {TrackWithMarkers({})}
    \cup {TrackWithEmpty({a, b}) : a \in Slots, b \in Slots}
    \cup {TrackWithEmpty({})}
    \cup {TrackWithEmpty(Rotated(E, r)) : E \in GapInputs, r \in Slots}

InitTrack ==
    /\ board = Game_new(PlayerCount).board
    /\ player_markers \in TrackInputs
    /\ player_count = Game_new(PlayerCount).player_count
    /\ round = Game_new(PlayerCount).round
    /\ signal = Idle
    /\ placed = <<>>
    /\ last = [op |-> "new"]

\* A call of Game::move_player_marker (the MovePlayerMarker arm of
\* do_action) on a track as given; `last` keeps the track of before the call.
MovePlayerMarker(from, to) ==
    /\ \E r \in {do_action(game, MovePlayerMarkerAction(from, to))} :
           /\ board' = r.game.board
           /\ player_markers' = r.game.player_markers
           /\ player_count' = r.game.player_count
           /\ round' = r.game.round
           /\ last' = [op |-> "move_player_marker", from |-> from, to |-> to,
                       res |-> r.res, before |-> player_markers]
    /\ UNCHANGED <<signal, placed>>

\* The first call on a track as given, from any slot to any slot.
NextTrack ==
    /\ last.op = "new"
    /\ \E from \in Slots, to \in Slots : MovePlayerMarker(from, to)

\* One marker move on every track of TrackInputs.
SpecTrack == InitTrack /\ [][NextTrack]_vars

(***************************************************************************)
(* Board::enter, one turn of its loop at a time.                            *)
(***************************************************************************)
\* The edge cells with a side of theirs that faces off the board (a corner
\* cell has two).
EntryInputs ==
    {[pos |-> BoardPosition(x, 0), side |-> "Top"] : x \in 0..BoardMax}
    \cup {[pos |-> BoardPosition(x, BoardMax), side |-> "Bottom"] : x \in 0..BoardMax}
    \cup {[pos |-> BoardPosition(0, y), side |-> "Left"] : y \in 0..BoardMax}
    \cup {[pos |-> BoardPosition(BoardMax, y), side |-> "Right"] : y \in 0..BoardMax}

\* Board::enter, "Calculate delta_position".
delta_position(exit_side) ==
    CASE exit_side = "Top" -> BoardPosition(0, -1)
      [] exit_side = "Bottom" -> BoardPosition(0, 1)
      [] exit_side = "Left" -> BoardPosition(-1, 0)
      [] exit_side = "Right" -> BoardPosition(1, 0)

\* enter as it would be if the loop did not add delta_position to pos.
enter_hop_stays(pos, exit_side) ==
    [pos |-> pos, side |-> opposite(exit_side)]

\* enter as it would be if the next enter side were the exit side itself.
enter_hop_keeps_side(pos, exit_side) ==
    [pos |-> Add(pos, delta_position(exit_side)), side |-> exit_side]

\* Board::enter, the end of one turn of the loop, which leaves position pos
\* by exit_side: the position and the side of the next turn ("Next enter side
\* is the opposite of exit side").  pos.x and pos.y are i8 and stay within
\* -1..6.
enter_hop(pos, exit_side) ==
    [pos |-> Add(pos, delta_position(exit_side)), side |-> opposite(exit_side)]

\* enter as it would be if the loop did not test for the entry position.
enter_while_edge_only(entry, pos) == ~on_edge(pos)

\* Board::enter, the condition of its while loop.
enter_while(entry, pos) == pos = entry \/ ~on_edge(pos)

\* A call of Board::enter, the first on this board: let mut pos = entry.
\* seen and again are history: the positions taken by pos so far, each with
\* the side it is entered from, and those of them taken more than once.
Enter(entry, side) ==
    /\ signal.pc = "idle"
    /\ signal' = [pc |-> "loop", entry |-> entry, from |-> side,
                  pos |-> entry, side |-> side,
                  seen |-> {[pos |-> entry, side |-> side]}, again |-> {}]
    /\ last' = [op |-> "enter"]
    /\ UNCHANGED <<board, player_markers, player_count, round, placed>>

\* The loop of Board::enter: while pos == entry || !pos.on_edge() it makes
\* one hop, else it returns pos.  top_piece indexes the arrays with
\* pos.x as usize and pos.y as usize, which panics for a position off the
\* board (a negative i8 becomes a huge usize).
EnterLoop ==
    /\ signal.pc = "loop"
    /\ signal' =
           IF enter_while(signal.entry, signal.pos)
               THEN IF valid(signal.pos)
                        THEN LET hop == enter_hop(signal.pos,
                                            RotatedPartialPiece_pass(
                                                At(board.top_pieces, signal.pos),
                                                signal.side))
                             IN  [signal EXCEPT !.pos = hop.pos, !.side = hop.side,
                                                !.seen = @ \cup {hop},
                                                !.again = @ \cup ({hop} \cap signal.seen)]
                        ELSE [signal EXCEPT !.pc = "panic"]
               ELSE [signal EXCEPT !.pc = "returned"]
    /\ UNCHANGED <<board, player_markers, player_count, round, placed, last>>

\* The pieces the routes are laid with: Pink (a curve of each kind) and Red
\* (two straight tiles) on and around the corner (0, 0), around (1, 1) and
\* (2, 2), and on the corner (5, 5); some reach off the board.
RoutePieceInputs ==
    {PositionedPiece("Pink", r, p) :
        r \in Rotations, p \in {BoardPosition(0, 0), BoardPosition(1, 1)}}
    \cup {PositionedPiece("Pink", 2, BoardPosition(1, 0)),
          PositionedPiece("Pink", 3, BoardPosition(2, 2)),
          PositionedPiece("Pink", 2, BoardPosition(1, 2)),
          PositionedPiece("Pink", 2, BoardPosition(BoardMax, BoardMax)),
          PositionedPiece("Pink", 0, BoardPosition(BoardMax, BoardMax)),
          PositionedPiece("Red", 0, BoardPosition(1, 1)),
          PositionedPiece("Red", 1, BoardPosition(1, 1))}

\* place_piece calls, then a call of enter on the board they leave (enter
\* takes &self and changes nothing, so a second call would meet the same
\* board).
NextEnter ==
    \/ signal.pc = "idle" /\ \E piece \in RoutePieceInputs : PlacePiece(piece)
    \/ \E e \in EntryInputs : Enter(e.pos, e.side)
    \/ EnterLoop

\* Signals entered from the edge of any board place_piece can build.
SpecEnter == Init /\ [][NextEnter]_vars

\* The pieces of the boards below: two that close a ring of curves around
\* (1, 1), one that bends the corner (0, 0), and two over (1, 1).
RingPieceInputs ==
    {PositionedPiece("Pink", 3, BoardPosition(2, 2)),
     PositionedPiece("Pink", 2, BoardPosition(1, 2)),
     PositionedPiece("Pink", 2, BoardPosition(1, 0)),
     PositionedPiece("Pink", 0, BoardPosition(1, 1)),
     PositionedPiece("Red", 0, BoardPosition(1, 1))}

\* The pieces of a sequence of place_piece calls that succeeded, in order.
RECURSIVE PlacedBy(_, _)
PlacedBy(b, pieces) ==
    IF pieces = <<>>
        THEN <<>>
        ELSE LET r == place_piece(b, Head(pieces))
             IN  IF IsOk(r.res)
                     THEN <<Head(pieces)>> \o PlacedBy(r.board, Tail(pieces))
                     ELSE PlacedBy(b, Tail(pieces))

\* The board a sequence of place_piece calls leaves.
RECURSIVE BoardBy(_, _)
BoardBy(b, pieces) ==
    IF pieces = <<>>
        THEN b
        ELSE BoardBy(place_piece(b, Head(pieces)).board, Tail(pieces))

\* A board left by up to two place_piece calls, before any call of enter.
InitRing ==
    /\ \E pieces \in {<<>>} \cup {<<p>> : p \in RingPieceInputs}
                      \cup (RingPieceInputs \X RingPieceInputs) :
           /\ board = BoardBy(Board_default, pieces)
           /\ placed = PlacedBy(Board_default, pieces)
    /\ player_markers = Game_new(PlayerCount).player_markers
    /\ player_count = PlayerCount
    /\ round = 0
    /\ signal = Idle
    /\ last = [op |-> "new"]

\* One call of enter on that board, a turn of its loop at a time.
NextRing ==
    \/ \E e \in EntryInputs : Enter(e.pos, e.side)
    \/ EnterLoop

\* A call of enter that can make a turn of its loop does so: the program runs
\* the loop on, nothing else can stop it.
SpecEnterFair == InitRing /\ [][NextRing]_vars /\ WF_vars(EnterLoop)

(***************************************************************************)
(* The shapes on their own.                                                 *)
(***************************************************************************)
\* A shape, a rotation and a side to pass from; `last` keeps the sides met
\* and the functions called.
InitPass ==
    /\ board = Game_new(PlayerCount).board
    /\ player_markers = Game_new(PlayerCount).player_markers
    /\ player_count = Game_new(PlayerCount).player_count
    /\ round = Game_new(PlayerCount).round
    /\ signal = Idle
    /\ placed = <<>>
    /\ \E partial_piece \in PartialPiece, rotation \in Rotations, side \in Side :
           last = [op |-> "side",
                   piece |-> RotatedPartialPiece(partial_piece, rotation),
                   sides |-> <<side>>,
                   calls |-> <<>>]

\* A call of PartialPiece::pass on the shape, from the side reached last.
PartialPass ==
    /\ Len(last.calls) < MaxPasses
    /\ last' = [op |-> "pass",
                piece |-> last.piece,
                sides |-> Append(last.sides,
                                 PartialPiece_pass(last.piece.partial_piece,
                                                   last.sides[Len(last.sides)])),
                calls |-> Append(last.calls, "PartialPiece")]
    /\ UNCHANGED <<board, player_markers, player_count, round, signal, placed>>

\* A call of RotatedPartialPiece::pass on the rotated shape, from the side
\* reached last.
RotatedPass ==
    /\ Len(last.calls) < MaxPasses
    /\ last' = [op |-> "pass",
                piece |-> last.piece,
                sides |-> Append(last.sides,
                                 RotatedPartialPiece_pass(last.piece,
                                                          last.sides[Len(last.sides)])),
                calls |-> Append(last.calls, "RotatedPartialPiece")]
    /\ UNCHANGED <<board, player_markers, player_count, round, signal, placed>>

NextPass == PartialPass \/ RotatedPass

\* Every shape in every rotation, passed through from every side.
SpecPass == InitPass /\ [][NextPass]_vars

\* The pass calls made on a shape on its own, or those enter makes on the
\* tiles of a board built by place_piece.
InitSignal == InitPass \/ Init

NextSignal ==
    \/ last.op \in {"side", "pass"} /\ NextPass
    \/ last.op \notin {"side", "pass"} /\ NextEnter

SpecSignal == InitSignal /\ [][NextSignal]_vars

(***************************************************************************)
(* Properties of Game::play_turn.                                           *)
(***************************************************************************)
\* Number of PlacePiece / MovePlayerMarker actions among the two of a turn.
KindCount(kinds, k) == Cardinality({i \in 1..2 : kinds[i] = k})

\* C1: a play_turn that returns an error, whether action1 failed or action1
\* succeeded and action2 failed, leaves the whole board (top_pieces, tile_id,
\* height, next_id), the 24 marker slots and round as they were before the
\* call.
C1_FailedTurnRestoresState ==
    [][(last'.op = "play_turn" /\ IsErr(last'.res))
         => /\ board' = board
            /\ player_markers' = player_markers
            /\ round' = round]_vars

\* A turn rolled back after its first action, a marker move, had succeeded
\* and its second, a placement, had failed.
C1_Witness ==
    /\ last.op = "play_turn"
    /\ last.kinds = <<"MovePlayerMarker", "PlacePiece">>
    /\ IsOk(last.res1)
    /\ IsErr(last.res2)
    /\ IsErr(last.res)

\* C2: round starts at 0; a play_turn that returns Ok increases it by exactly
\* 1 and keeps what both actions did (next_id has advanced by the number of
\* pieces placed, the markers are untouched by a turn without a marker move
\* and changed by a turn with exactly one); every other step, a failed
\* play_turn or a next_player, leaves round unchanged.  Hence round is the
\* number of play_turn calls that returned Ok.
C2_RoundCountsSuccessfulTurns ==
    /\ round = 0
    /\ [][IF last'.op = "play_turn" /\ IsOk(last'.res)
            THEN /\ round' = round + 1
                 /\ board'.next_id = board.next_id + KindCount(last'.kinds, "PlacePiece")
                 /\ KindCount(last'.kinds, "MovePlayerMarker") = 0
                        => player_markers' = player_markers
                 /\ KindCount(last'.kinds, "MovePlayerMarker") = 1
                        => player_markers' # player_markers
            ELSE round' = round]_vars

\* The second successful turn, one that placed a piece and moved a marker.
C2_Witness ==
    /\ round = 2
    /\ last.op = "play_turn"
    /\ IsOk(last.res)
    /\ last.kinds = <<"PlacePiece", "MovePlayerMarker">>

\* C3: play_turn returns the first error met: when action1 fails the result
\* is the error of action1 and action2 is not applied; when action1 succeeds
\* and action2 fails the result is the error of action2.
C3_FirstErrorReturned ==
    last.op = "play_turn"
        => /\ IsErr(last.res1) => (last.res = last.res1 /\ last.res2 = NotApplied)
           /\ (IsOk(last.res1) /\ IsErr(last.res2)) => last.res = last.res2
           /\ (IsOk(last.res1) /\ IsOk(last.res2)) => last.res = Ok

\* A turn whose first action, a marker move, was too far: its error is the
\* result and the placement after it was not applied.
C3_Witness ==
    /\ last.op = "play_turn"
    /\ last.kinds = <<"MovePlayerMarker", "PlacePiece">>
    /\ last.res1 = Err(TooFar)
    /\ last.res = Err(TooFar)
    /\ last.res2 = NotApplied

(***************************************************************************)
(* Properties of Board::place_piece.                                        *)
(***************************************************************************)
\* "On the 6x6 board", stated on the coordinates.
OnBoard(p) == p.x \in 0..5 /\ p.y \in 0..5

\* The first cell (the position) and the second cell of a piece, and the
\* two as a set.
C1Of(piece) == positions(piece)[1]
C2Of(piece) == positions(piece)[2]
CellsOf(piece) == {C1Of(piece), C2Of(piece)}

\* Both cells carry the same non-zero tile id on board b.
SamePieceUnder(b, c1, c2) == At(b.tile_id, c1) # 0 /\ At(b.tile_id, c1) = At(b.tile_id, c2)

\* C4: place_piece validates in a fixed order and the first failure wins: a
\* first cell off the board gives invalid-position naming it, else a second
\* cell off the board gives invalid-position naming it; otherwise unequal
\* heights give height-mismatch whatever the tile ids are; otherwise equal
\* non-zero tile ids give duplicate-piece.
C4_ValidationOrder ==
    [][last'.op = "place_piece"
         => LET c1 == C1Of(last'.piece)
                c2 == C2Of(last'.piece)
            IN  IF ~OnBoard(c1) THEN last'.res = Err(InvalidPosition(c1))
                ELSE IF ~OnBoard(c2) THEN last'.res = Err(InvalidPosition(c2))
                ELSE IF At(board.height, c1) # At(board.height, c2)
                     THEN last'.res = Err(BadHeight)
                ELSE SamePieceUnder(board, c1, c2) => last'.res = Err(BadPiece)]_vars

\* A call with both cells off the board: the error names the first.
C4_Witness ==
    /\ last.op = "place_piece"
    /\ ~OnBoard(C1Of(last.piece))
    /\ ~OnBoard(C2Of(last.piece))
    /\ last.res = Err(InvalidPosition(C1Of(last.piece)))

\* C5: a place_piece that returns an error (invalid position, height
\* mismatch or duplicate piece) leaves the board unchanged: every height,
\* tile id and exposed tile, and next_id.
C5_FailedPlacementChangesNothing ==
    [][(last'.op = "place_piece" /\ IsErr(last'.res)) => board' = board]_vars

\* A height mismatch on a board that holds pieces.
C5_Witness ==
    /\ last.op = "place_piece"
    /\ last.res = Err(BadHeight)
    /\ board.next_id > 2

\* C6: a place_piece that succeeds raises the height of its two cells by 1,
\* stamps both with the next_id of before the call, raises next_id by 1,
\* exposes the first shape of the piece on its first cell and the second on
\* its second, both with the rotation of the piece, and changes no other
\* cell.
C6_SuccessfulPlacementEffect ==
    [][(last'.op = "place_piece" /\ IsOk(last'.res))
         => LET piece == last'.piece
                c1 == C1Of(piece)
                c2 == C2Of(piece)
            IN  /\ At(board'.height, c1) = At(board.height, c1) + 1
                /\ At(board'.height, c2) = At(board.height, c2) + 1
                /\ At(board'.tile_id, c1) = board.next_id
                /\ At(board'.tile_id, c2) = board.next_id
                /\ board'.next_id = board.next_id + 1
                /\ At(board'.top_pieces, c1) =
                       [partial_piece |-> partial_pieces(piece)[1], rotation |-> piece.rotation]
                /\ At(board'.top_pieces, c2) =
                       [partial_piece |-> partial_pieces(piece)[2], rotation |-> piece.rotation]
                /\ \A c \in Cells \ {c1, c2} :
                       /\ At(board'.height, c) = At(board.height, c)
                       /\ At(board'.tile_id, c) = At(board.tile_id, c)
                       /\ At(board'.top_pieces, c) = At(board.top_pieces, c)]_vars

\* A Red piece placed on top of other pieces.
C6_Witness ==
    /\ last.op = "place_piece"
    /\ IsOk(last.res)
    /\ last.piece.piece = "Red"
    /\ At(board.height, C1Of(last.piece)) = 2

\* C7: for a piece whose two cells are on the board and of equal height,
\* place_piece is rejected with duplicate-piece iff both cells carry the same
\* non-zero tile id, and succeeds otherwise (different ids, or 0 on one or
\* both cells).
C7_DuplicateIffSamePiece ==
    [][(/\ last'.op = "place_piece"
        /\ OnBoard(C1Of(last'.piece))
        /\ OnBoard(C2Of(last'.piece))
        /\ At(board.height, C1Of(last'.piece)) = At(board.height, C2Of(last'.piece)))
         => IF SamePieceUnder(board, C1Of(last'.piece), C2Of(last'.piece))
                THEN last'.res = Err(BadPiece)
                ELSE last'.res = Ok]_vars

\* A Pink piece accepted across two pieces: its cells were of height 1 under
\* different tile ids.
C7_Witness ==
    /\ last.op = "place_piece"
    /\ IsOk(last.res)
    /\ last.piece.piece = "Pink"
    /\ At(board.height, C1Of(last.piece)) = 2
    /\ At(board.height, C2Of(last.piece)) = 2

\* C8: right after a successful place_piece, a place_piece of any colour on
\* the same two cells (same position and rotation, or anchored on the other
\* cell with the opposite rotation) fails with duplicate-piece; and Pink at
\* (0,0) rotation 0 succeeds on the empty board.
C8_ReplacementIsDuplicate ==
    [][last'.op = "place_piece"
         => /\ (/\ last.op = "place_piece"
                /\ IsOk(last.res)
                /\ CellsOf(last'.piece) = CellsOf(last.piece))
                    => last'.res = Err(BadPiece)
            /\ (/\ board = Board_default
                /\ last'.piece = PositionedPiece("Pink", 0, BoardPosition(0, 0)))
                    => last'.res = Ok]_vars

\* A duplicate-piece error for a piece anchored on the other cell of the
\* piece placed last, in the opposite rotation.
C8_Witness ==
    /\ last.op = "place_piece"
    /\ last.res = Err(BadPiece)
    /\ placed # <<>>
    /\ CellsOf(last.piece) = CellsOf(placed[Len(placed)])
    /\ last.piece.position # placed[Len(placed)].position
    /\ last.piece.rotation = (placed[Len(placed)].rotation + 2) % 4
    /\ At(board.tile_id, C1Of(last.piece)) = board.next_id - 1

\* The three placements of board.rs's place_pieces test that succeed, and the
\* heights it expects after them, indexed [x][y].
Pink_00_0 == PositionedPiece("Pink", 0, BoardPosition(0, 0))
Pink_11_2 == PositionedPiece("Pink", 2, BoardPosition(1, 1))
Pink_00_1 == PositionedPiece("Pink", 1, BoardPosition(0, 0))
OffCentreHeights ==
    [x \in 0..5 |-> [y \in 0..5 |->
        IF x = 0 /\ y \in {0, 1} THEN 2
        ELSE IF x = 1 /\ y \in {0, 1} THEN 1
        ELSE 0]]

\* C9: off-centre stacking: from the empty board Pink at (0,0) rotation 0,
\* then Pink at (1,1) rotation 2, then Pink at (0,0) rotation 1 all succeed,
\* and the heights are then 2 at (0,0) and (0,1), 1 at (1,0) and (1,1), 0
\* elsewhere.
C9_OffCentreStacking ==
    [][last'.op = "place_piece"
         => /\ (placed = <<>> /\ last'.piece = Pink_00_0) => last'.res = Ok
            /\ (placed = <<Pink_00_0>> /\ last'.piece = Pink_11_2) => last'.res = Ok
            /\ (placed = <<Pink_00_0, Pink_11_2>> /\ last'.piece = Pink_00_1)
                   => (last'.res = Ok /\ board'.height = OffCentreHeights)]_vars

\* The board after the three placements.
C9_Witness ==
    /\ placed = <<Pink_00_0, Pink_11_2, Pink_00_1>>
    /\ last.op = "place_piece"
    /\ last.piece = Pink_00_1
    /\ last.res = Ok

\* C10: after any sequence of place_piece calls, successful or failed, the
\* height of every cell is the number of successful placements whose two
\* cells include it.
C10_HeightCountsPlacements ==
    \A p \in Cells :
        At(board.height, p) = Cardinality({i \in 1..Len(placed) : p \in CellsOf(placed[i])})

\* A board of three pieces with a cell covered twice and a cell covered
\* once.
C10_Witness ==
    /\ last.op = "place_piece"
    /\ Len(placed) = 3
    /\ \E p \in Cells : At(board.height, p) = 2
    /\ \E p \in Cells : At(board.height, p) = 1

\* Placement i of `placed` put its two cells on p and q, and no placement
\* after it covers p or q.
TopPlacement(i, p, q) ==
    /\ CellsOf(placed[i]) = {p, q}
    /\ \A j \in (i + 1)..Len(placed) : CellsOf(placed[j]) \cap {p, q} = {}

\* C11: in every reachable board and for every two distinct cells p and q,
\* tile_id[p] = tile_id[q] # 0 iff p and q are the two cells of one successful
\* placement and no later successful placement has covered p or q.
\* (The two directions are stated apart: "if" over the placements, whose
\* cells are the only pairs the right-hand side can hold of, and "only if"
\* over the cells that carry an id.)
C11_SharedIdIffSameUncoveredPlacement ==
    /\ \A i \in 1..Len(placed) :
           TopPlacement(i, C1Of(placed[i]), C2Of(placed[i]))
               => /\ C1Of(placed[i]) # C2Of(placed[i])
                  /\ At(board.tile_id, C1Of(placed[i])) # 0
                  /\ At(board.tile_id, C1Of(placed[i])) = At(board.tile_id, C2Of(placed[i]))
    /\ \A p \in Cells :
           At(board.tile_id, p) # 0
               => \A q \in Cells \ {p} :
                      At(board.tile_id, q) = At(board.tile_id, p)
                          => \E i \in 1..Len(placed) : TopPlacement(i, p, q)

\* A board where the first piece has lost the shared id (one of its cells was
\* covered by a later piece) and the last piece still has it.
C11_Witness ==
    /\ Len(placed) = 3
    /\ At(board.tile_id, C1Of(placed[1])) # At(board.tile_id, C2Of(placed[1]))
    /\ At(board.tile_id, C1Of(placed[3])) = At(board.tile_id, C2Of(placed[3]))
    /\ At(board.tile_id, C1Of(placed[3])) = 3

\* C12: next_id starts at 1 and never decreases; a place_piece that succeeds
\* stamps its cells with an identifier larger than every identifier on the
\* board and raises next_id by exactly 1, one that fails leaves next_id
\* unchanged, so the placements on a board never share an identifier; and a
\* play_turn that is rolled back leaves next_id at its value of before the
\* turn.
C12_NextIdMonotonic ==
    /\ board.next_id = 1
    /\ [][/\ board'.next_id >= board.next_id
          /\ (last'.op = "place_piece" /\ IsOk(last'.res))
                 => /\ board'.next_id = board.next_id + 1
                    /\ At(board'.tile_id, C1Of(last'.piece)) = board.next_id
                    /\ At(board'.tile_id, C2Of(last'.piece)) = board.next_id
                    /\ \A c \in Cells : At(board.tile_id, c) < board.next_id
          /\ (last'.op = "place_piece" /\ IsErr(last'.res))
                 => board'.next_id = board.next_id
          /\ (last'.op = "play_turn" /\ IsErr(last'.res))
                 => board'.next_id = board.next_id]_vars

\* A turn rolled back after its first action had placed a piece on a board
\* of two pieces: next_id is 3 as before the turn.
C12_Witness ==
    /\ last.op = "play_turn"
    /\ last.kinds[1] = "PlacePiece"
    /\ IsOk(last.res1)
    /\ IsErr(last.res)
    /\ Len(placed) = 2
    /\ board.next_id = 3

(***************************************************************************)
(* Properties of Game::move_player_marker.                                  *)
(***************************************************************************)
\* C13: MovePlayerMarker(from, to) checks its preconditions in order: an
\* empty slot `from` gives the no-marker error whatever slot `to` holds;
\* otherwise an occupied slot `to` gives the marker-present error, from = to
\* included; only when both preconditions hold does the distance rule decide
\* (success or too-far).
C13_PreconditionOrder ==
    last.op = "move_player_marker"
        => IF last.before[last.from] = <<>>
               THEN last.res = Err(NoPlayerMarker)
           ELSE IF last.before[last.to] # <<>>
               THEN last.res = Err(HasPlayerMarker)
           ELSE last.res \in {Ok, Err(TooFar)}

\* A move from an empty slot to an occupied one: the no-marker error.
C13_Witness ==
    /\ last.op = "move_player_marker"
    /\ last.before[last.from] = <<>>
    /\ last.before[last.to] # <<>>
    /\ last.res = Err(NoPlayerMarker)

\* The slots strictly between a and b going up the cycle from a, and the
\* number of empty slots of a track among the slots of S.
Arc(a, b) == {(a + k) % 24 : k \in 1..(((b - a + 24) % 24) - 1)}
EmptyIn(track, S) == Cardinality({i \in S : track[i] = <<>>})

\* The track moved r slots along the cycle.
RotatedTrack(track, r) == [i \in 0..23 |-> track[(i - r + 24) % 24]]

\* C14: for from # to with slot `from` occupied and slot `to` empty, the
\* move succeeds iff one of the two arcs between from and to has at most one
\* empty slot among its strictly-between slots, and fails with too-far
\* otherwise; and the same move on the same track moved any number of slots
\* along the cycle, past slot 23 to slot 0, has the same result.
C14_LegalIffAnArcHasAtMostOneGap ==
    (/\ last.op = "move_player_marker"
     /\ last.from # last.to
     /\ last.before[last.from] # <<>>
     /\ last.before[last.to] = <<>>)
        => /\ last.res = IF \/ EmptyIn(last.before, Arc(last.from, last.to)) <= 1
                             \/ EmptyIn(last.before, Arc(last.to, last.from)) <= 1
                              THEN Ok
                              ELSE Err(TooFar)
           /\ \A r \in 0..23 :
                  move_player_marker([game EXCEPT !.player_markers = RotatedTrack(last.before, r)],
                                     (last.from + r) % 24, (last.to + r) % 24).res
                      = last.res

\* The case of the comment in move_player_marker: on a well-filled track a
\* move is legal by the long way round only, the slots between min and max
\* holding two empty ones or more.
C14_Witness ==
    /\ last.op = "move_player_marker"
    /\ last.res = Ok
    /\ EmptyIn(last.before, 0..23) <= 5
    /\ \/ last.from < last.to /\ EmptyIn(last.before, Arc(last.from, last.to)) >= 2
       \/ last.to < last.from /\ EmptyIn(last.before, Arc(last.to, last.from)) >= 2

\* The track was, before the call, one with a marker on every slot but 5
\* and 17.
AllBut5And17 ==
    /\ last.op = "move_player_marker"
    /\ \A i \in 0..23 : (last.before[i] = <<>>) <=> (i \in {5, 17})

\* C15, as stated: with markers on all 24 slots except 5 and 17, moving a
\* marker from slot 0 to slot 4 succeeds.
C15_Original_Move0To4Succeeds ==
    (AllBut5And17 /\ last.from = 0 /\ last.to = 4) => last.res = Ok

\* C15, amended: with markers on all 24 slots except 5 and 17, moving a
\* marker from slot 0 to slot 4 fails with the marker-present error and
\* leaves the track as it was, slot 4 holding a marker; moving it from slot 0
\* to slot 5, past the markers of slots 1 to 4, succeeds.
C15_Move0To4MarkerPresent ==
    /\ (AllBut5And17 /\ last.from = 0 /\ last.to = 4)
           => (last.res = Err(HasPlayerMarker) /\ player_markers = last.before)
    /\ (AllBut5And17 /\ last.from = 0 /\ last.to = 5)
           => (last.res = Ok /\ player_markers[5] = last.before[0])

\* The move from slot 0 to slot 4 on that track, refused.
C15_Witness ==
    /\ AllBut5And17
    /\ last.from = 0
    /\ last.to = 4
    /\ last.res = Err(HasPlayerMarker)

\* The number of slots of a track that hold the value v (a marker <<p>>, or
\* the empty <<>>).
SlotsHolding(track, v) == Cardinality({i \in 0..23 : track[i] = v})

\* C16: a MovePlayerMarker(from, to) that succeeds puts the former occupant
\* of slot `from` into slot `to`, leaves slot `from` empty and changes no
\* other slot and nothing on the board; one that fails changes no slot.
\* Either way the track holds the same markers, each as many times, as
\* before.
C16_MoveEffect ==
    last.op = "move_player_marker"
        => /\ IF last.res = Ok
                  THEN /\ player_markers[last.to] = last.before[last.from]
                       /\ player_markers[last.to] # <<>>
                       /\ player_markers[last.from] = <<>>
                       /\ \A i \in 0..23 \ {last.from, last.to} :
                              player_markers[i] = last.before[i]
                  ELSE player_markers = last.before
           /\ board = Board_default
           /\ round = 0
           /\ \A v \in {<<>>, <<0>>, <<1>>} :
                  SlotsHolding(player_markers, v) = SlotsHolding(last.before, v)

\* A marker of player 1 moved to a slot whose number is even, on a track
\* that holds a marker of player 0 as well.
C16_Witness ==
    /\ last.op = "move_player_marker"
    /\ last.res = Ok
    /\ last.before[last.from] = <<1>>
    /\ last.to % 2 = 0
    /\ player_markers[last.to] = <<1>>
    /\ SlotsHolding(player_markers, <<0>>) >= 1

(***************************************************************************)
(* Properties of Game::next_player.                                         *)
(***************************************************************************)
\* C17: for player_count >= 1, next_player returns round mod player_count
\* and changes no state; a successful turn moves its value one step along
\* the cycle 0, 1, ..., player_count - 1, 0, ..., and a failed turn leaves
\* its value unchanged.
C17_NextPlayerCycles ==
    [][/\ last'.op = "next_player"
            => /\ last'.ret = round % player_count
               /\ last'.ret \in 0..(player_count - 1)
               /\ <<board, player_markers, player_count, round>>' =
                      <<board, player_markers, player_count, round>>
       /\ (last'.op = "play_turn" /\ IsOk(last'.res))
            => next_player(game)' = IF next_player(game) = player_count - 1
                                       THEN 0
                                       ELSE next_player(game) + 1
       /\ (last'.op = "play_turn" /\ IsErr(last'.res))
            => next_player(game)' = next_player(game)]_vars

\* next_player called after two successful turns of a game of two players:
\* it is the turn of player 0 again.
C17_Witness ==
    /\ last.op = "next_player"
    /\ player_count = 2
    /\ round = 2
    /\ last.ret = 0

(***************************************************************************)
(* Properties of the shapes.                                                *)
(***************************************************************************)
\* C18: for each of the 3 unrotated shapes and each of the 4 sides,
\* PartialPiece::pass is an involution: passing from the side pass led to
\* leads back to the side passed from first.
C18_PartialPassInvolution ==
    last.op = "pass"
        => \A i \in 1..(Len(last.calls) - 1) :
               (last.calls[i] = "PartialPiece" /\ last.calls[i + 1] = "PartialPiece")
                   => last.sides[i + 2] = last.sides[i]

\* TopLeft_BottomRight from Bottom: to Right and back.
C18_Witness ==
    /\ last.op = "pass"
    /\ last.piece.partial_piece = "TopLeft_BottomRight"
    /\ last.calls = <<"PartialPiece", "PartialPiece">>
    /\ last.sides = <<"Bottom", "Right", "Bottom">>

\* C19: for each of the 3 shapes, each rotation 0..3 and each of the 4
\* sides, RotatedPartialPiece::pass is an involution; and at rotation 0 it
\* gives what the pass of the unrotated shape gives.
C19_RotatedPassInvolution ==
    last.op = "pass"
        => /\ \A i \in 1..(Len(last.calls) - 1) :
                  (/\ last.calls[i] = "RotatedPartialPiece"
                   /\ last.calls[i + 1] = "RotatedPartialPiece")
                      => last.sides[i + 2] = last.sides[i]
           /\ \A i \in 1..Len(last.calls) :
                  (last.calls[i] = "RotatedPartialPiece" /\ last.piece.rotation = 0)
                      => last.sides[i + 1] =
                             PartialPiece_pass(last.piece.partial_piece, last.sides[i])

\* TopRight_BottomLeft turned once clockwise, from Top: to Left and back.
C19_Witness ==
    /\ last.op = "pass"
    /\ last.piece = [partial_piece |-> "TopRight_BottomLeft", rotation |-> 1]
    /\ last.calls = <<"RotatedPartialPiece", "RotatedPartialPiece">>
    /\ last.sides = <<"Top", "Left", "Top">>

(***************************************************************************)
(* Properties of Board::enter.                                              *)
(***************************************************************************)
\* C20: on the empty default board a signal goes straight through: entered
\* at (x, 0) from Top it stays in column x, moving down, and enter returns
\* (x, 5); entered at (0, y) from Left it stays in row y, moving right, and
\* enter returns (5, y); so enter((2,0), Top) returns (2,5) and
\* enter((0,2), Left) returns (5,2).
C20_StraightThroughEmptyBoard ==
    (signal.pc # "idle" /\ board.next_id = 1)
        => /\ (signal.from = "Top" /\ signal.entry.y = 0)
                  => /\ signal.pc # "panic"
                     /\ signal.pos.x = signal.entry.x
                     /\ signal.pos.y \in 0..5
                     /\ signal.side = "Top"
                     /\ signal.pc = "returned"
                            => signal.pos = [x |-> signal.entry.x, y |-> 5]
           /\ (signal.from = "Left" /\ signal.entry.x = 0)
                  => /\ signal.pc # "panic"
                     /\ signal.pos.y = signal.entry.y
                     /\ signal.pos.x \in 0..5
                     /\ signal.side = "Left"
                     /\ signal.pc = "returned"
                            => signal.pos = [x |-> 5, y |-> signal.entry.y]
           /\ (signal.pc = "returned" /\ signal.from = "Top"
                  /\ signal.entry = [x |-> 2, y |-> 0])
                  => signal.pos = [x |-> 2, y |-> 5]
           /\ (signal.pc = "returned" /\ signal.from = "Left"
                  /\ signal.entry = [x |-> 0, y |-> 2])
                  => signal.pos = [x |-> 5, y |-> 2]

\* The last cell on the board of a signal that is at cell pos, entered from
\* side, when the tiles are followed until the signal leaves the grid (or for
\* fuel hops at most: each cell has two strands, so 72 hops are enough).
RECURSIVE LastCellOnBoard(_, _, _, _)
LastCellOnBoard(b, pos, side, fuel) ==
    LET exit_side == RotatedPartialPiece_pass(At(b.top_pieces, pos), side)
        next == Add(pos, delta_position(exit_side))
    IN  IF fuel = 0 \/ ~OnBoard(next)
            THEN pos
            ELSE LastCellOnBoard(b, next, opposite(exit_side), fuel - 1)

\* C21: on every board place_piece can build, for every edge cell entered
\* from a side facing off the board, enter returns the final edge cell of the
\* signal's path: the last cell on the board the signal occupies before it
\* leaves the 6x6 grid when the tiles are followed cell by cell.
C21_ReturnsFinalEdgeCell ==
    signal.pc \in {"returned", "panic"}
        => /\ signal.pc = "returned"
           /\ signal.pos = LastCellOnBoard(board, signal.entry, signal.from, 72)

\* C22: every position enter visits and the position it returns has
\* 0 <= x <= 5 and 0 <= y <= 5 (corner cells included), and no board array is
\* indexed outside the 6x6 grid.
C22_StaysOnBoard ==
    signal.pc # "idle"
        => /\ signal.pc # "panic"
           /\ OnBoard(signal.pos)
           /\ \A s \in signal.seen : OnBoard(s.pos)

\* C23: the loop of enter terminates: a call of enter that has started
\* returns, the signal does not circulate for ever.
C23_EnterTerminates == (signal.pc = "loop") ~> (signal.pc = "returned")

\* Once round the ring of curves about (1, 1): entered at (0, 1) from Left,
\* the signal crosses (1, 1) twice and enter returns (1, 0).
C23_Witness ==
    /\ signal.pc = "returned"
    /\ signal.entry = BoardPosition(0, 1) /\ signal.from = "Left"
    /\ signal.pos = BoardPosition(1, 0)
    /\ Cardinality(signal.seen) = 7

\* C25: whenever enter returns, the position it returns is not the entry
\* position, also when the entry cell is on the edge: the loop has made at
\* least one hop, and it stops only at a position with x or y equal to 0 or
\* 5 that is not the starting cell; until then the call goes on.
C25_ReturnsAnotherEdgePosition ==
    /\ signal.pc = "returned"
           => /\ signal.pos # signal.entry
              /\ Cardinality(signal.seen) >= 2
              /\ signal.pos.x \in {0, 5} \/ signal.pos.y \in {0, 5}
    /\ (signal.pc = "loop" /\ Cardinality(signal.seen) >= 2)
           => \A s \in signal.seen :
                  (s.pos # signal.pos /\ s.pos # signal.entry)
                      => (s.pos.x \notin {0, 5} /\ s.pos.y \notin {0, 5})

\* Entered at the corner (0, 0) from Top on the empty board, enter returns
\* (0, 1) after one hop.
C25_Witness ==
    /\ signal.pc = "returned"
    /\ board.next_id = 1
    /\ signal.entry = BoardPosition(0, 0) /\ signal.from = "Top"
    /\ signal.pos = BoardPosition(0, 1)

\* C26: during one call of enter started at an edge cell from a side facing
\* off the board, every step advances to a new cell: no cell is occupied
\* twice by the signal.
C26_Original_NoCellTwice ==
    signal.pc # "idle"
        => /\ signal.again = {}
           /\ \A s, t \in signal.seen : s.pos = t.pos => s = t

\* C26, amended: every step advances to a cell the signal has not entered
\* from that side before; a cell is occupied twice at most, and then from two
\* different sides.
C26_NoCellTwiceFromTheSameSide ==
    signal.pc # "idle"
        => /\ signal.again = {}
           /\ \A s \in signal.seen :
                  Cardinality({t \in signal.seen : t.pos = s.pos}) <= 2

\* Round the ring of curves about (1, 1): the straight tile of (1, 1) is
\* crossed from Left and later from Bottom.
C26_Witness ==
    /\ signal.pc = "returned"
    /\ [pos |-> BoardPosition(1, 1), side |-> "Left"] \in signal.seen
    /\ [pos |-> BoardPosition(1, 1), side |-> "Bottom"] \in signal.seen

(***************************************************************************)
(* Further properties of Game::play_turn.                                   *)
(***************************************************************************)
\* C24: every failure of play_turn is a typed error value and no call aborts:
\* whatever the game and the turn (marker indices in 0..23, rotations in
\* 0..3, piece cells up to one step off the board), play_turn returns Ok or
\* one of InvalidPosition, BadHeight, BadPiece, NoPlayerMarker,
\* HasPlayerMarker, TooFar; so does each action that was applied.
C24_FailuresAreTypedErrors ==
    last.op = "play_turn"
        => /\ last.res # Aborted
           /\ IsOk(last.res)
                  \/ /\ IsErr(last.res)
                     /\ last.res.err.kind \in
                            {"InvalidPosition", "BadHeight", "BadPiece",
                             "NoPlayerMarker", "HasPlayerMarker", "TooFar"}
           /\ IsOk(last.res1) \/ IsErr(last.res1)
           /\ IsOk(last.res2) \/ IsErr(last.res2) \/ last.res2 = NotApplied
           /\ IsErr(last.res) => last.res \in {last.res1, last.res2}

\* A turn whose first action places a piece with a cell on (-1, 0), one step
\* off the board: the turn fails with InvalidPosition of that cell.
C24_Witness ==
    /\ last.op = "play_turn"
    /\ last.kinds[1] = "PlacePiece"
    /\ last.res = Err(InvalidPosition(BoardPosition(-1, 0)))
    /\ last.res2 = NotApplied

\* Turns of two placements: of Pink on (0, 0) unrotated and Pink on (0, 0)
\* turned once, which share the cell (0, 0), each twice or one after the
\* other.
TwoPlacementTurns ==
    {<<PlacePieceAction(p), PlacePieceAction(q)>> :
        p \in {Pink_00_0, Pink_00_1}, q \in {Pink_00_0, Pink_00_1}}

\* C27: within one play_turn, action2 is applied to the state action1 left,
\* not to the state before the turn: the second placement gets the result
\* place_piece gives on the board the first one produced; so a turn of two
\* placements on the same two cells, the first of which succeeds, fails with
\* BadPiece from the second action and changes nothing.
C27_SecondActionSeesTheFirst ==
    [][(last'.op = "play_turn" /\ last'.kinds = <<"PlacePiece", "PlacePiece">>)
          => \A turn \in TwoPlacementTurns :
                 PlayTurn(turn)
                     => \E first \in {place_piece(board, turn[1].piece)} :
                            /\ last'.res1 = first.res
                            /\ IsOk(first.res)
                                   => \E second \in {place_piece(first.board, turn[2].piece)} :
                                          /\ last'.res2 = second.res
                                          /\ last'.res = second.res
                                          /\ IsOk(second.res) => board' = second.board
                                          /\ CellsOf(turn[1].piece) = CellsOf(turn[2].piece)
                                                 => /\ second.res = Err(BadPiece)
                                                    /\ board' = board
                                                    /\ round' = round]_vars

\* Pink turned twice lies on (1, 1) and (0, 1); the turn then places Pink on
\* (0, 0) and (1, 0) and Pink on (0, 0) and (0, 1), and succeeds: the second
\* stacks on a cell of the first and on (0, 1).  Before the turn (0, 0) was at
\* height 0 and (0, 1) at height 1, where the second placement alone gets
\* BadHeight.
C27_Witness ==
    /\ last.op = "play_turn"
    /\ last.kinds = <<"PlacePiece", "PlacePiece">>
    /\ IsOk(last.res)
    /\ placed = <<Pink_11_2, Pink_00_0, Pink_00_1>>
    /\ At(board.height, BoardPosition(0, 0)) = 2
    /\ At(board.height, BoardPosition(0, 1)) = 2
    /\ At(board.height, BoardPosition(1, 0)) = 1
    /\ place_piece(BoardBy(Board_default, <<Pink_11_2>>), Pink_00_1).res = Err(BadHeight)

(***************************************************************************)
(* Properties of the states a game reaches.                                 *)
(***************************************************************************)
\* The cells that carry tile id i on board b.
CellsWithId(b, i) == {p \in Cells : At(b.tile_id, p) = i}

\* C28: on every board reached by place_piece and play_turn, a cell has tile
\* id 0 exactly when its height is 0; every tile id on the board is smaller
\* than next_id; and each non-zero tile id is on at most two cells, which are
\* orthogonally adjacent.
C28_BoardInvariants ==
    /\ \A p \in Cells :
           /\ (At(board.tile_id, p) = 0) <=> (At(board.height, p) = 0)
           /\ At(board.tile_id, p) < board.next_id
    /\ \A i \in 1..(board.next_id - 1) :
           /\ Cardinality(CellsWithId(board, i)) <= 2
           /\ \A p, q \in CellsWithId(board, i) :
                  p # q => \/ p.x = q.x /\ (p.y - q.y) \in {-1, 1}
                           \/ p.y = q.y /\ (p.x - q.x) \in {-1, 1}

\* After a turn that stacked a piece off-centre: tile id 3 is on two cells
\* and the ids 1 and 2 beneath it are left on one cell each.
C28_Witness ==
    /\ last.op = "play_turn"
    /\ board.next_id = 4
    /\ Cardinality(CellsWithId(board, 1)) = 1
    /\ Cardinality(CellsWithId(board, 2)) = 1
    /\ Cardinality(CellsWithId(board, 3)) = 2

\* The sum of f[0], .., f[n].
RECURSIVE SumTo(_, _)
SumTo(f, n) == IF n < 0 THEN 0 ELSE f[n] + SumTo(f, n - 1)

\* The sum of height over the 36 cells of board b.
SumOfHeights(b) ==
    SumTo([x \in 0..BoardMax |-> SumTo(b.height[x], BoardMax)], BoardMax)

\* C29: in every game reached from Game::new by play_turn, the sum of height
\* over the 36 cells is 2 * (next_id - 1), and next_id - 1 is the number of
\* PlacePiece actions of the turns that succeeded: the placements of a turn
\* rolled back are not counted, their identifiers are given out again.
C29_HeightsCountSucceededPlacements ==
    /\ SumOfHeights(board) = 2 * (board.next_id - 1)
    /\ board.next_id - 1 = Len(placed)

\* After a turn of two placements that succeeded, a turn whose first
\* placement succeeds and whose second action fails: next_id is 3 as before.
C29_Witness ==
    /\ last.op = "play_turn"
    /\ last.kinds[1] = "PlacePiece"
    /\ IsOk(last.res1)
    /\ IsErr(last.res)
    /\ Len(placed) = 2
    /\ board.next_id = 3
    /\ SumOfHeights(board) = 4

\* C30: Game::new leaves the 24 marker slots empty and no operation creates
\* a marker: in every state reached from Game::new by play_turn all slots
\* are empty, every MovePlayerMarker action that is applied fails with
\* NoPlayerMarker, and every turn with a MovePlayerMarker action fails and
\* leaves round as it was.
C30_NoMarkerEver ==
    [][/\ \A i \in Slots : is_none(player_markers[i]) /\ is_none(player_markers'[i])
       /\ (last'.op = "play_turn" /\ "MovePlayerMarker" \in {last'.kinds[1], last'.kinds[2]})
              => /\ IsErr(last'.res)
                 /\ round' = round
                 /\ last'.kinds[1] = "MovePlayerMarker"
                        => /\ last'.res1 = Err(NoPlayerMarker)
                           /\ last'.res2 = NotApplied
                 /\ last'.kinds[2] = "MovePlayerMarker"
                        => last'.res2 \in {Err(NoPlayerMarker), NotApplied}
                 /\ (last'.kinds[2] = "MovePlayerMarker" /\ IsOk(last'.res1))
                        => last'.res2 = Err(NoPlayerMarker)]_vars

\* A turn that places a piece and then moves a marker: the placement
\* succeeds, the move fails with NoPlayerMarker and the board is restored.
C30_Witness ==
    /\ last.op = "play_turn"
    /\ last.kinds = <<"PlacePiece", "MovePlayerMarker">>
    /\ IsOk(last.res1)
    /\ last.res2 = Err(NoPlayerMarker)
    /\ last.res = Err(NoPlayerMarker)
    /\ board = Board_default
    /\ round = 0
    /\ \A i \in Slots : is_none(player_markers[i])

(***************************************************************************)
(* Properties of pass.                                                      *)
(***************************************************************************)
\* C31: a signal never leaves a cell through the side it entered: for every
\* shape, every rotation 0..3 and every side, pass returns another side than
\* the one it is given; so in enter no hop takes the signal back to the
\* position it has just come from.
C31_NeverBackThroughTheEntrySide ==
    [][/\ last'.op = "pass"
              => last'.sides[Len(last'.sides)] # last.sides[Len(last.sides)]
       /\ (signal.pc = "loop" /\ signal'.pc = "loop")
              => /\ signal'.side # opposite(signal.side)
                 /\ signal'.pos # Add(signal.pos, delta_position(signal.side))]_vars

\* TopLeft_BottomRight turned once clockwise pipes Top to Right.
C31_Witness ==
    /\ last.op = "pass"
    /\ last.piece = [partial_piece |-> "TopLeft_BottomRight", rotation |-> 1]
    /\ last.calls = <<"RotatedPartialPiece">>
    /\ last.sides = <<"Top", "Right">>

====
